---- MODULE Spec2Model ----
(***************************************************************************)
(* Account registry of Cyano Wallet (src/api/accountApi.ts).               *)
(*                                                                         *)
(* The wallet is the in-memory ontology-ts-sdk Wallet object: an ordered   *)
(* list of accounts and the defaultAccountAddress selector.  Every         *)
(* exported function of accountApi.ts is synchronous, so each call is one  *)
(* atomic step.  Strings that the code inspects character by character     *)
(* (labels) are sequences of one-character strings; addresses are opaque   *)
(* strings, '' being the empty string.                                     *)
(***************************************************************************)
EXTENDS Integers, Sequences, FiniteSets, TLC

VARIABLES accounts, defaultAccountAddress, last

vars == <<accounts, defaultAccountAddress, last>>

(***************************************************************************)
(* Bounds of the model.                                                    *)
(***************************************************************************)
\* number of distinct values uuid() may return
NumUuids == 1
\* number of pieces a label given to isTorusAccount is put together from
MaxPieces == 4

(***************************************************************************)
(* Program constants.                                                      *)
(***************************************************************************)
WifLength == 52
RawKeyBytes == 32

(***************************************************************************)
(* Strings as character sequences.                                         *)
(***************************************************************************)
At == "@"
Google == <<"g", "o", "o", "g", "l", "e">>
Discord == <<"d", "i", "s", "c", "o", "r", "d">>

\* String.prototype.split(sep) for a one-character separator: the pieces
\* between the separators, in order; n separators give n + 1 pieces.
RECURSIVE split(_, _)
split(s, sep) ==
  IF \A i \in 1..Len(s) : s[i] # sep
  THEN <<s>>
  ELSE LET i == CHOOSE j \in 1..Len(s) :
                  s[j] = sep /\ \A k \in 1..(j - 1) : s[k] # sep
       IN  <<SubSeq(s, 1, i - 1)>> \o split(SubSeq(s, i + 1, Len(s)), sep)

\* uuid(): the n-th possible value; a uuid never contains '@'
uuid(n) == [i \in 1..n |-> "u"]

Uuids == {uuid(n) : n \in 1..NumUuids}

\* values of the optional torusType argument; <<>> stands for both
\* undefined and '', which the code does not tell apart
TorusTypes == {<<>>, Google, Discord}

Passwords == {"p1"}

Salts == {"s1"}

(***************************************************************************)
(* Private keys and their textual encodings.                               *)
(***************************************************************************)
\* tag bytes of ontology-ts-sdk KeyType / CurveLabel
ECDSAHex == 18
SM2Hex == 19
SECP256R1Hex == 2
SM2P256V1Hex == 20

KeyTypeFromHex(b) ==
  CASE b = ECDSAHex -> "ECDSA"
    [] b = SM2Hex -> "SM2"
    [] OTHER -> "unknown"

CurveLabelFromHex(b) ==
  CASE b = SECP256R1Hex -> "SECP256R1"
    [] b = SM2P256V1Hex -> "SM2P256V1"
    [] OTHER -> "unknown"

\* the 32 bytes of the secret scalar k, big-endian
SecretBytes(k) == [i \in 1..RawKeyBytes |-> IF i = RawKeyBytes THEN k ELSE 0]

\* sk.toString('hex'), kept as the number the hex digits denote
RECURSIVE toHex(_)
toHex(bytes) ==
  IF bytes = <<>> THEN 0
  ELSE 256 * toHex(SubSeq(bytes, 1, Len(bytes) - 1)) + bytes[Len(bytes)]

PrivateKey(sk, algorithm, curve) ==
  [key |-> sk, algorithm |-> algorithm, curve |-> curve]

NoKey == [key |-> 0, algorithm |-> "none", curve |-> "none"]

\* A key string is described by what the code observes of it: its length in
\* characters, the bytes new Buffer(str, 'hex') yields, and the key that
\* PrivateKey.deserializeWIF yields (NoKey when the WIF check fails).
HexString(bytes) ==
  [length |-> 2 * Len(bytes), bytes |-> bytes, wif |-> NoKey]

WifString(k) ==
  [length |-> WifLength, bytes |-> <<>>,
   wif |-> PrivateKey(toHex(SecretBytes(k)), "ECDSA", "SECP256R1")]

BadWifString == [length |-> WifLength, bytes |-> <<>>, wif |-> NoKey]

\* The key strings callers pass: two raw 32-byte keys, the WIF of the first
\* of them, a tagged SM2 key, a tagged key with an unknown algorithm byte
\* and a 52-character string that is no valid WIF.
PrivateKeyStrs ==
  {HexString(SecretBytes(1)),
   HexString(SecretBytes(2)),
   WifString(1),
   HexString(<<SM2Hex, SM2P256V1Hex>> \o SecretBytes(1)),
   HexString(<<99, SECP256R1Hex>> \o SecretBytes(1)),
   BadWifString}

\* The key strings the parse is examined on: raw keys of 32 bytes, tagged
\* keys of 34 bytes with known and unknown tag bytes, the same followed by
\* one more byte, WIF strings, a 52-character string that is no WIF and a
\* hex string of 26 bytes, which has 52 characters too.
TagBytes == {ECDSAHex, SM2Hex, 99}

CurveBytes == {SECP256R1Hex, SM2P256V1Hex, 99}

ParseStrs ==
  {HexString(SecretBytes(k)) : k \in 1..2}
    \cup {HexString(<<a, c>> \o SecretBytes(k)) :
            a \in TagBytes, c \in CurveBytes, k \in 1..2}
    \cup {HexString(<<a, c>> \o SecretBytes(k) \o <<7>>) :
            a \in TagBytes, c \in CurveBytes, k \in 1..2}
    \cup {WifString(k) : k \in 1..2}
    \cup {BadWifString, HexString([i \in 1..(WifLength \div 2) |-> 17])}

Threw(e) == [threw |-> TRUE, error |-> e, key |-> NoKey]
Parsed(k) == [threw |-> FALSE, error |-> "", key |-> k]

deserializeWIF(str) ==
  IF str.wif = NoKey THEN Threw("ChecksumMismatch") ELSE Parsed(str.wif)

deserializePrivateKey_swapped(str) ==
  LET b == str.bytes IN
  IF Len(b) = RawKeyBytes
  THEN Parsed(PrivateKey(toHex(SubSeq(b, 1, RawKeyBytes)),
                         "ECDSA", "SECP256R1"))
  ELSE LET curveHex == b[1]
           algorithmHex == b[2]
           sk == SubSeq(b, 3, 2 + RawKeyBytes)
       IN  IF KeyTypeFromHex(algorithmHex) = "unknown"
           THEN Threw("UnknownAlgorithm")
           ELSE IF CurveLabelFromHex(curveHex) = "unknown"
           THEN Threw("UnknownCurve")
           ELSE Parsed(PrivateKey(toHex(sk), KeyTypeFromHex(algorithmHex),
                                  CurveLabelFromHex(curveHex)))

deserializePrivateKey(str) ==
  LET b == str.bytes IN
  IF Len(b) = RawKeyBytes
  THEN Parsed(PrivateKey(toHex(SubSeq(b, 1, RawKeyBytes)),
                         "ECDSA", "SECP256R1"))
  ELSE LET algorithmHex == b[1]
           curveHex == b[2]
           sk == SubSeq(b, 3, 2 + RawKeyBytes)
       IN  IF KeyTypeFromHex(algorithmHex) = "unknown"
           THEN Threw("UnknownAlgorithm")
           ELSE IF CurveLabelFromHex(curveHex) = "unknown"
           THEN Threw("UnknownCurve")
           ELSE Parsed(PrivateKey(toHex(sk), KeyTypeFromHex(algorithmHex),
                                  CurveLabelFromHex(curveHex)))

\* the dispatch on the encoding at the head of accountImportPrivateKey
parsePrivateKeyStr(privateKeyStr) ==
  IF privateKeyStr.length = WifLength
  THEN deserializeWIF(privateKeyStr)
  ELSE deserializePrivateKey(privateKeyStr)

\* parsePrivateKeyStr tabulated over the key strings of the model
parsed == [str \in PrivateKeyStrs \cup ParseStrs |-> parsePrivateKeyStr(str)]

\* the public key belonging to a private key
getPublicKeyOf(privateKey) ==
  [pub |-> privateKey.key, algorithm |-> privateKey.algorithm,
   curve |-> privateKey.curve]

\* Address.fromPubKey(...).toBase58(): an injective, never empty rendering
toBase58(publicKey) == ToString(publicKey)

\* PrivateKey.encrypt: the record binds key, password, address and the
\* salt, which it is given in hex
encrypt(privateKey, password, address, salt) ==
  [type |-> "normal", key |-> privateKey, password |-> password,
   address |-> address, salt |-> salt]

\* the same salt bytes written in hex and in base64
Hex(bytes) == [encoding |-> "hex", bytes |-> bytes]
Base64(bytes) == [encoding |-> "base64", bytes |-> bytes]

\* Buffer.from(salt, 'base64').toString('hex'); a string that is no base64
\* does not give the bytes back
base64ToHex(salt) ==
  IF salt.encoding = "base64" THEN Hex(salt.bytes) ELSE Hex("")

\* Account.create(privateKey, password, label, params): the key is
\* encrypted with the hex salt, the account keeps the salt in base64
AccountCreate(privateKey, password, label, salt) ==
  LET address == toBase58(getPublicKeyOf(privateKey)) IN
  [address |-> address,
   label |-> label,
   salt |-> Base64(salt),
   publicKey |-> getPublicKeyOf(privateKey),
   encryptedKey |-> encrypt(privateKey, password, address, Hex(salt))]

(***************************************************************************)
(* The wallet and its serialized form.                                     *)
(***************************************************************************)
Wallet(accs, def) == [accounts |-> accs, defaultAccountAddress |-> def]

\* Wallet.create(name): no accounts, defaultAccountAddress ''
WalletCreate == Wallet(<<>>, "")

\* Wallet.toJson(): the serialized registry, never the empty string
toJson(w) ==
  [kind |-> "json", accounts |-> w.accounts,
   defaultAccountAddress |-> w.defaultAccountAddress]

\* the empty string '' returned in place of a serialized registry
EmptyMarker ==
  [kind |-> "empty", accounts |-> <<>>, defaultAccountAddress |-> ""]

\* typeof wallet === 'string': a serialized registry, not a Wallet object
isString(wallet) == "kind" \in DOMAIN wallet

\* getWallet(walletEncoded) of authApi: the registry a serialized registry
\* was written from
getWallet(walletEncoded) ==
  Wallet(walletEncoded.accounts, walletEncoded.defaultAccountAddress)

resolveWallet_created(wallet) ==
  IF isString(wallet) THEN WalletCreate ELSE wallet

\* if (typeof wallet === 'string') { wallet = getWallet(wallet); }
resolveWallet(wallet) ==
  IF isString(wallet) THEN getWallet(wallet) ELSE wallet

accountsSome_never(accs, address) == FALSE

accountsSome_firstOnly(accs, address) ==
  Len(accs) > 0 /\ accs[1].address = address

\* wallet.accounts.some(item => item.address.toBase58() === address)
accountsSome(accs, address) ==
  \E i \in 1..Len(accs) : accs[i].address = address

addAccount_unshift(w, account) ==
  Wallet(<<account>> \o w.accounts, w.defaultAccountAddress)

\* wallet.addAccount(account), reached only when no account has the address
addAccount(w, account) ==
  Wallet(Append(w.accounts, account), w.defaultAccountAddress)

setDefaultAccount_onlyIfUnset(w, address) ==
  IF w.defaultAccountAddress = "" THEN Wallet(w.accounts, address) ELSE w

\* wallet.setDefaultAccount(address)
setDefaultAccount(w, address) == Wallet(w.accounts, address)

isTorusAccount_suffix(account) ==
  LET torusType == split(account.label, At) IN
  /\ Len(torusType) >= 2
  /\ (torusType[Len(torusType)] = Google
        \/ torusType[Len(torusType)] = Discord)

isTorusAccount(account) ==
  LET torusType == split(account.label, At) IN
  Len(torusType) = 2 /\ (torusType[2] = Google \/ torusType[2] = Discord)

(***************************************************************************)
(* The operations: each yields the wallet after the call and the value     *)
(* the call returns.                                                       *)
(***************************************************************************)
Outcome(w, ret) == [wallet |-> w, ret |-> ret]

Returned(serialized) == [kind |-> "ok", error |-> "", wallet |-> serialized]

Thrown(e) == [kind |-> "throw", error |-> e, wallet |-> EmptyMarker]

accountImportPrivateKey_replaces(privateKeyStr, password, wallet, torusType, id, salt) ==
  LET w == resolveWallet(wallet) IN
  IF parsed[privateKeyStr].threw
  THEN Outcome(w, Thrown(parsed[privateKeyStr].error))
  ELSE
    LET privateKey == parsed[privateKeyStr].key
        label == IF torusType # <<>> THEN id \o <<At>> \o torusType ELSE id
        account == AccountCreate(privateKey, password, label, salt)
        added == IF ~ accountsSome(w.accounts, account.address)
                 THEN addAccount(w, account)
                 ELSE Wallet([i \in 1..Len(w.accounts) |->
                                IF w.accounts[i].address = account.address
                                THEN account ELSE w.accounts[i]],
                             w.defaultAccountAddress)
        after == setDefaultAccount(added, account.address)
    IN  Outcome(after, Returned(toJson(after)))

accountImportPrivateKey(privateKeyStr, password, wallet, torusType, id, salt) ==
  LET w == resolveWallet(wallet) IN
  IF parsed[privateKeyStr].threw
  THEN Outcome(w, Thrown(parsed[privateKeyStr].error))
  ELSE
    LET privateKey == parsed[privateKeyStr].key
        label == IF torusType # <<>> THEN id \o <<At>> \o torusType ELSE id
        account == AccountCreate(privateKey, password, label, salt)
        added == IF ~ accountsSome(w.accounts, account.address)
                 THEN addAccount(w, account)
                 ELSE w
        after == setDefaultAccount(added, account.address)
    IN  Outcome(after, Returned(toJson(after)))

\* wallet.accounts.find((a) => a.address.toBase58() === address), as the
\* test account !== undefined reads it
accountsFind(accs, address) ==
  \E i \in 1..Len(accs) : accs[i].address = address

accountsFilter_inverted(accs, address) ==
  SelectSeq(accs, LAMBDA a : a.address = address)

\* wallet.accounts.filter((a) => a.address.toBase58() !== address)
RECURSIVE accountsFilter(_, _)
accountsFilter(accs, address) ==
  IF accs = <<>> THEN <<>>
  ELSE IF Head(accs).address # address
  THEN <<Head(accs)>> \o accountsFilter(Tail(accs), address)
  ELSE accountsFilter(Tail(accs), address)

defaultAfterDelete_kept(accs, address, def) == def

defaultAfterDelete_last(accs, address, def) ==
  IF def = address
  THEN IF Len(accs) > 0 THEN accs[Len(accs)].address ELSE ""
  ELSE def

\* the reassignment of defaultAccountAddress at the end of accountDelete
defaultAfterDelete(accs, address, def) ==
  IF def = address
  THEN IF Len(accs) > 0 THEN accs[1].address ELSE ""
  ELSE def

accountDelete(address, wallet) ==
  LET w == resolveWallet(wallet)
      account == accountsFind(w.accounts, address)
      accs == IF account THEN accountsFilter(w.accounts, address)
              ELSE w.accounts
      after == Wallet(accs, defaultAfterDelete(accs, address,
                                               w.defaultAccountAddress))
  IN  Outcome(after,
              Returned(IF Len(after.accounts) = 0 THEN EmptyMarker
                       ELSE toJson(after)))

RECURSIVE filterLoop_keepsOtherTorus(_, _, _)
filterLoop_keepsOtherTorus(rest, accountsWithouTorus, def) ==
  IF rest = <<>>
  THEN Wallet(accountsWithouTorus, def)
  ELSE LET account == Head(rest) IN
       IF isTorusAccount(account) /\ account.address = def
       THEN filterLoop_keepsOtherTorus(Tail(rest), accountsWithouTorus, "")
       ELSE filterLoop_keepsOtherTorus(Tail(rest),
                                       Append(accountsWithouTorus, account),
                                       def)

\* the for loop of filterTorusAccount, one account per iteration: the list
\* collected so far and defaultAccountAddress as the loop leaves them
RECURSIVE filterLoop(_, _, _)
filterLoop(rest, accountsWithouTorus, def) ==
  IF rest = <<>>
  THEN Wallet(accountsWithouTorus, def)
  ELSE LET account == Head(rest) IN
       IF ~ isTorusAccount(account)
       THEN filterLoop(Tail(rest), Append(accountsWithouTorus, account), def)
       ELSE IF account.address = def
       THEN filterLoop(Tail(rest), accountsWithouTorus, "")
       ELSE filterLoop(Tail(rest), accountsWithouTorus, def)

defaultAfterFilter_none(w) == w.defaultAccountAddress

\* the reassignment of defaultAccountAddress at the end of filterTorusAccount
defaultAfterFilter(w) ==
  IF w.defaultAccountAddress = "" /\ Len(w.accounts) > 0
  THEN w.accounts[1].address
  ELSE w.defaultAccountAddress

filterTorusAccount(wallet) ==
  LET w == resolveWallet(wallet)
      looped == filterLoop(w.accounts, <<>>, w.defaultAccountAddress)
      after == Wallet(looped.accounts, defaultAfterFilter(looped))
  IN  Outcome(after, Returned(toJson(after)))

(***************************************************************************)
(* The lookups.  They change nothing and yield a value or an exception.    *)
(***************************************************************************)
\* a defaultAccountAddress that is null, which no string equals
Null == "<null>"

\* undefined, as wallet.accounts[0] of an empty list
Undefined == [undefined |-> TRUE]

\* the empty string '' returned in place of a public key
NoPublicKey == [pub |-> 0, algorithm |-> "", curve |-> ""]

Value(v) == [kind |-> "ok", error |-> "", value |-> v]

Failed(e) == [kind |-> "throw", error |-> e, value |-> Undefined]

\* accounts.find((a) => a.address.toBase58() === address): the first match
accountsFound(accs, address) ==
  accs[CHOOSE i \in 1..Len(accs) :
         /\ accs[i].address = address
         /\ \A j \in 1..(i - 1) : accs[j].address # address]

getAccount_repaired(wallet) ==
  LET w == resolveWallet(wallet) IN
  IF /\ w.defaultAccountAddress # Null
     /\ w.defaultAccountAddress # ""
     /\ accountsFind(w.accounts, w.defaultAccountAddress)
  THEN Value(accountsFound(w.accounts, w.defaultAccountAddress))
  ELSE IF Len(w.accounts) > 0 THEN Value(w.accounts[1])
  ELSE Value(Undefined)

getAccount(wallet) ==
  LET w == resolveWallet(wallet)
      defaultAddress == w.defaultAccountAddress
  IN  IF defaultAddress # Null /\ defaultAddress # ""
      THEN IF ~ accountsFind(w.accounts, defaultAddress)
           THEN Failed("Default account not found in wallet")
           ELSE Value(accountsFound(w.accounts, defaultAddress))
      ELSE IF Len(w.accounts) > 0 THEN Value(w.accounts[1])
      ELSE Value(Undefined)

\* reading a property of undefined throws a TypeError
getAddress(wallet) ==
  LET account == getAccount(wallet) IN
  IF account.kind = "throw" THEN account
  ELSE IF account.value = Undefined THEN Failed("TypeError")
  ELSE Value(account.value.address)

isCurrentTorusAccount_first(wallet) ==
  LET w == resolveWallet(wallet) IN
  IF Len(w.accounts) = 0 THEN Failed("TypeError")
  ELSE Value(isTorusAccount(w.accounts[1]))

isCurrentTorusAccount(wallet) ==
  LET account == getAccount(wallet) IN
  IF account.kind = "throw" THEN account
  ELSE IF account.value = Undefined THEN Failed("TypeError")
  ELSE Value(isTorusAccount(account.value))

getPublicKey_first(walletEncoded) ==
  LET w == getWallet(walletEncoded) IN
  IF Len(w.accounts) > 0 THEN Value(w.accounts[1].publicKey)
  ELSE Value(NoPublicKey)

getPublicKey(walletEncoded) ==
  LET w == getWallet(walletEncoded) IN
  IF accountsFind(w.accounts, w.defaultAccountAddress)
  THEN Value(accountsFound(w.accounts, w.defaultAccountAddress).publicKey)
  ELSE Value(NoPublicKey)

\* encryptedKey.decrypt(password, address, saltHex, params): the key when
\* password, address and salt are those of the encryption
decrypt(encryptedKey, password, address, salt) ==
  IF /\ encryptedKey.password = password
     /\ encryptedKey.address = address
     /\ encryptedKey.salt = salt
  THEN Value(encryptedKey.key)
  ELSE Failed("DecryptionFailed")

decryptAccount_rawSalt(wallet, password) ==
  LET account == getAccount(wallet) IN
  IF account.kind = "throw" THEN account
  ELSE IF account.value = Undefined THEN Failed("TypeError")
  ELSE decrypt(account.value.encryptedKey, password, account.value.address,
               account.value.salt)

decryptAccount(wallet, password) ==
  LET account == getAccount(wallet) IN
  IF account.kind = "throw" THEN account
  ELSE IF account.value = Undefined THEN Failed("TypeError")
  ELSE LET saltHex == base64ToHex(account.value.salt) IN
       decrypt(account.value.encryptedKey, password, account.value.address,
               saltHex)

(***************************************************************************)
(* The state machine.  last records the most recent call: its name, its    *)
(* arguments, the wallet it was given and the value it returned.           *)
(***************************************************************************)
wallet == Wallet(accounts, defaultAccountAddress)

NoCall ==
  [op |-> "none", address |-> "", torusType |-> <<>>,
   privateKeyStr |-> BadWifString, password |-> "", id |-> <<>>,
   salt |-> "", handle |-> FALSE,
   before |-> WalletCreate, ret |-> Thrown("")]

Init ==
  /\ accounts = WalletCreate.accounts
  /\ defaultAccountAddress = WalletCreate.defaultAccountAddress
  /\ last = NoCall

Apply(out, call) ==
  /\ accounts' = out.wallet.accounts
  /\ defaultAccountAddress' = out.wallet.defaultAccountAddress
  /\ last' = [call EXCEPT !.before = wallet, !.ret = out.ret]

\* the address of the key a key string denotes, '' when it denotes none
addressOf(privateKeyStr) ==
  IF parsed[privateKeyStr].threw THEN ""
  ELSE toBase58(getPublicKeyOf(parsed[privateKeyStr].key))

ImportPrivateKey ==
  \E privateKeyStr \in PrivateKeyStrs, password \in Passwords,
     torusType \in TorusTypes, id \in Uuids, salt \in Salts :
    Apply(accountImportPrivateKey(privateKeyStr, password, wallet,
                                  torusType, id, salt),
          [NoCall EXCEPT !.op = "accountImportPrivateKey",
                         !.address = addressOf(privateKeyStr),
                         !.torusType = torusType])

\* the addresses a caller may pass to accountDelete: that of every key that
\* can be imported, and ''
Addresses == {addressOf(str) : str \in PrivateKeyStrs}

Delete ==
  \E address \in Addresses :
    Apply(accountDelete(address, wallet),
          [NoCall EXCEPT !.op = "accountDelete", !.address = address])

Filter ==
  Apply(filterTorusAccount(wallet),
        [NoCall EXCEPT !.op = "filterTorusAccount"])

Next == ImportPrivateKey \/ Delete \/ Filter

Spec == Init /\ [][Next]_vars

(***************************************************************************)
(* Lookups in a registry loaded from persistence, which may hold any       *)
(* defaultAccountAddress: null, '', the address of an account or of none.  *)
(***************************************************************************)
LoadedAccount(k, label) ==
  AccountCreate(PrivateKey(k, "ECDSA", "SECP256R1"), "p1", label, "s1")

LoadedAccounts ==
  {LoadedAccount(1, uuid(1)),
   LoadedAccount(2, uuid(1) \o <<At>> \o Google),
   LoadedAccount(3, uuid(1) \o <<At>> \o Discord)}

\* the lists of loaded accounts without repetition
LoadedLists ==
  {list \in UNION {[1..n -> LoadedAccounts] : n \in 0..3} :
     \A i, j \in 1..Len(list) : list[i] = list[j] => i = j}

LoadedDefaults == {Null, ""} \cup {a.address : a \in LoadedAccounts}

InitLoaded ==
  /\ accounts \in LoadedLists
  /\ defaultAccountAddress \in LoadedDefaults
  /\ last = NoCall

Lookup(op, ret) ==
  /\ last' = [NoCall EXCEPT !.op = op, !.before = wallet, !.ret = ret]
  /\ UNCHANGED <<accounts, defaultAccountAddress>>

GetAccount == Lookup("getAccount", getAccount(wallet))

GetAddress == Lookup("getAddress", getAddress(wallet))

IsCurrentTorusAccount ==
  Lookup("isCurrentTorusAccount", isCurrentTorusAccount(wallet))

GetPublicKey == Lookup("getPublicKey", getPublicKey(toJson(wallet)))

NextLoaded == GetAccount \/ GetAddress \/ IsCurrentTorusAccount \/ GetPublicKey

SpecLoaded == InitLoaded /\ [][NextLoaded]_vars

(***************************************************************************)
(* Properties.  before is the wallet the last call was given, wallet the   *)
(* wallet it left.                                                         *)
(***************************************************************************)
before == last.before

Has(accs, address) == \E i \in 1..Len(accs) : accs[i].address = address

Holders(accs, address) == {i \in 1..Len(accs) : accs[i].address = address}

\* s without its i-th element
Without(s, i) == SubSeq(s, 1, i - 1) \o SubSeq(s, i + 1, Len(s))

Imported == last.op = "accountImportPrivateKey" /\ last.ret.kind = "ok"
Reimported == Imported /\ Has(before.accounts, last.address)
Deleted == last.op = "accountDelete"
Filtered == last.op = "filterTorusAccount"

\* C1: defaultAccountAddress is empty exactly when there is no account, and
\* otherwise it is the address of exactly one account of the list.
C1_DefaultInvariant ==
  /\ (defaultAccountAddress = "") <=> (accounts = <<>>)
  /\ defaultAccountAddress # ""
       => Cardinality(Holders(accounts, defaultAccountAddress)) = 1

\* the default account was deleted while other accounts stayed
C1_Witness ==
  /\ Deleted
  /\ last.address = before.defaultAccountAddress
  /\ Len(before.accounts) = 3
  /\ Len(accounts) = 2

\* C2: no two accounts of the list have the same address.
C2_UniqueAddresses ==
  \A i, j \in 1..Len(accounts) :
    accounts[i].address = accounts[j].address => i = j

\* a key whose address is in a list of three accounts was imported again
C2_Witness == Reimported /\ Len(accounts) = 3

\* C3: importing a key whose address is already in the list leaves the
\* list as it was: same length, same accounts, same order.
C3_ReimportKeepsAccounts ==
  Reimported => accounts = before.accounts

\* the address imported again belongs to the second account, and the call
\* before it was already an import of that address
C3_Witness ==
  /\ Reimported
  /\ Len(before.accounts) >= 2
  /\ before.accounts[2].address = last.address
  /\ before.defaultAccountAddress = last.address

\* C4 as stated: importing a key whose address is already in the list
\* while another account is the default changes nothing, the default
\* included.
C4_ReimportIsNoOp ==
  (Reimported /\ before.defaultAccountAddress # last.address)
    => /\ accounts = before.accounts
       /\ defaultAccountAddress = before.defaultAccountAddress

\* C4 as amended: such an import leaves the list as it was and makes the
\* account of the imported key the default.
C4_ReimportSelects ==
  (Reimported /\ before.defaultAccountAddress # last.address)
    => /\ accounts = before.accounts
       /\ defaultAccountAddress = last.address

\* an account that was not the default was imported again
C4_Witness ==
  /\ Reimported
  /\ before.defaultAccountAddress # last.address
  /\ before.defaultAccountAddress # ""

\* C5: importing a key whose address is not in the list appends one
\* account, leaves the earlier ones in place and makes the new one the
\* default.
C5_ImportAppends ==
  (Imported /\ ~ Has(before.accounts, last.address))
    => /\ Len(accounts) = Len(before.accounts) + 1
       /\ SubSeq(accounts, 1, Len(before.accounts)) = before.accounts
       /\ accounts[Len(accounts)].address = last.address
       /\ defaultAccountAddress = last.address

\* a third account was imported
C5_Witness ==
  /\ Imported
  /\ ~ Has(before.accounts, last.address)
  /\ Len(before.accounts) = 2

\* C6: deleting the default account makes the first of the remaining
\* accounts, in insertion order, the default, and empties the default when
\* none remains.
C6_DeleteDefaultReassigns ==
  (Deleted /\ Has(before.accounts, last.address)
           /\ before.defaultAccountAddress = last.address)
    => LET rest == {i \in 1..Len(before.accounts) :
                      before.accounts[i].address # last.address}
       IN  IF rest = {}
           THEN defaultAccountAddress = ""
           ELSE \E i \in rest :
                  /\ \A j \in rest : i <= j
                  /\ defaultAccountAddress = before.accounts[i].address

\* the default deleted was the second of three accounts
C6_Witness ==
  /\ Deleted
  /\ Len(before.accounts) = 3
  /\ before.accounts[2].address = last.address
  /\ before.defaultAccountAddress = last.address

\* C7: accountDelete with an address of no account changes nothing;
\* accountDelete of an account that is not the default removes that account
\* only, keeps the order of the others and leaves the default alone.
C7_DeleteFrame ==
  Deleted =>
    /\ ~ Has(before.accounts, last.address)
         => /\ accounts = before.accounts
            /\ defaultAccountAddress = before.defaultAccountAddress
    /\ (Has(before.accounts, last.address)
          /\ before.defaultAccountAddress # last.address)
         => /\ \E i \in 1..Len(before.accounts) :
                  /\ before.accounts[i].address = last.address
                  /\ accounts = Without(before.accounts, i)
            /\ defaultAccountAddress = before.defaultAccountAddress

\* the first of three accounts, not the default, was deleted
C7_Witness ==
  /\ Deleted
  /\ Len(before.accounts) = 3
  /\ before.accounts[1].address = last.address
  /\ before.defaultAccountAddress # last.address

\* the accounts of accs that isTorusAccount rejects, in their order
NonTorus(accs) == SelectSeq(accs, LAMBDA a : ~ isTorusAccount(a))

\* C8: after filterTorusAccount the list is the subsequence of the earlier
\* list made of the accounts that are not torus accounts.
C8_FilterKeepsNonTorus ==
  Filtered => accounts = NonTorus(before.accounts)

\* a torus account between two others was filtered out
C8_Witness ==
  /\ Filtered
  /\ Len(before.accounts) = 3
  /\ ~ isTorusAccount(before.accounts[1])
  /\ isTorusAccount(before.accounts[2])
  /\ ~ isTorusAccount(before.accounts[3])
  /\ before.defaultAccountAddress # before.accounts[2].address

\* label is <id>@<provider>, the id without '@'
LabelOf(label, provider) ==
  \E i \in 1..Len(label) :
    /\ label[i] = At
    /\ \A j \in 1..(i - 1) : label[j] # At
    /\ SubSeq(label, i + 1, Len(label)) = provider

\* accounts [A(x), B(y@google), C(z@discord)] with B the default
FilterExample(w) ==
  /\ Len(w.accounts) = 3
  /\ \A j \in 1..Len(w.accounts[1].label) : w.accounts[1].label[j] # At
  /\ LabelOf(w.accounts[2].label, Google)
  /\ LabelOf(w.accounts[3].label, Discord)
  /\ w.defaultAccountAddress = w.accounts[2].address

\* C9: filterTorusAccount leaves the default alone when the default account
\* is not a torus account; otherwise the default becomes the first
\* remaining account, or empty when none remains.  [A, B@google, C@discord]
\* with default B gives [A] with default A.
C9_FilterDefault ==
  Filtered =>
    /\ \A i \in 1..Len(before.accounts) :
         before.accounts[i].address = before.defaultAccountAddress
           => IF ~ isTorusAccount(before.accounts[i])
              THEN defaultAccountAddress = before.defaultAccountAddress
              ELSE IF NonTorus(before.accounts) = <<>>
              THEN defaultAccountAddress = ""
              ELSE defaultAccountAddress =
                     NonTorus(before.accounts)[1].address
    /\ FilterExample(before)
         => /\ accounts = <<before.accounts[1]>>
            /\ defaultAccountAddress = before.accounts[1].address

\* the example of the claim was filtered
C9_Witness == Filtered /\ FilterExample(before)

\* C10: filterTorusAccount returns the serialized registry when an account
\* remains and the empty marker when none remains.
C10_FilterReturnsEmptyMarker ==
  Filtered =>
    IF accounts = <<>>
    THEN last.ret.wallet = EmptyMarker
    ELSE last.ret.wallet = toJson(wallet)

(***************************************************************************)
(* The calls with either representation of the wallet: the Wallet object   *)
(* or its serialized form.                                                 *)
(***************************************************************************)
\* the wallet as the caller passes it
Passed(handle) == IF handle THEN toJson(wallet) ELSE wallet

ImportCall(strs, passwords, torusTypes, handles) ==
  \E privateKeyStr \in strs, password \in passwords,
     torusType \in torusTypes, id \in Uuids, salt \in Salts,
     handle \in handles :
    Apply(accountImportPrivateKey(privateKeyStr, password, Passed(handle),
                                  torusType, id, salt),
          [NoCall EXCEPT !.op = "accountImportPrivateKey",
                         !.address = addressOf(privateKeyStr),
                         !.torusType = torusType,
                         !.privateKeyStr = privateKeyStr,
                         !.password = password,
                         !.id = id,
                         !.salt = salt,
                         !.handle = handle])

DeleteCall(addresses, handles) ==
  \E address \in addresses, handle \in handles :
    Apply(accountDelete(address, Passed(handle)),
          [NoCall EXCEPT !.op = "accountDelete", !.address = address,
                         !.handle = handle])

HandleKeyStrs ==
  {HexString(SecretBytes(1)), HexString(SecretBytes(2)), BadWifString}

ImportVia == ImportCall(HandleKeyStrs, Passwords, TorusTypes, BOOLEAN)

DeleteVia == DeleteCall({addressOf(str) : str \in HandleKeyStrs}, BOOLEAN)

FilterVia ==
  \E handle \in BOOLEAN :
    Apply(filterTorusAccount(Passed(handle)),
          [NoCall EXCEPT !.op = "filterTorusAccount", !.handle = handle])

LookupVia(op, ret, handle) ==
  /\ last' = [NoCall EXCEPT !.op = op, !.before = wallet, !.ret = ret,
                            !.handle = handle]
  /\ UNCHANGED <<accounts, defaultAccountAddress>>

GetAccountVia ==
  \E handle \in BOOLEAN :
    LookupVia("getAccount", getAccount(Passed(handle)), handle)

GetAddressVia ==
  \E handle \in BOOLEAN :
    LookupVia("getAddress", getAddress(Passed(handle)), handle)

IsCurrentTorusAccountVia ==
  \E handle \in BOOLEAN :
    LookupVia("isCurrentTorusAccount", isCurrentTorusAccount(Passed(handle)),
              handle)

NextHandle ==
  \/ ImportVia
  \/ DeleteVia
  \/ FilterVia
  \/ GetAccountVia
  \/ GetAddressVia
  \/ IsCurrentTorusAccountVia

SpecHandle == Init /\ [][NextHandle]_vars

(***************************************************************************)
(* Imports with several passwords and with torus types other than google   *)
(* and discord, of two keys.                                               *)
(***************************************************************************)
Github == <<"g", "i", "t", "h", "u", "b">>

WideKeyStrs ==
  {HexString(SecretBytes(1)), WifString(1), HexString(SecretBytes(2))}

WidePasswords == {"p1", "p2"}

WideTorusTypes == {<<>>, Google, Discord, Github}

ImportWide == ImportCall(WideKeyStrs, WidePasswords, WideTorusTypes, {FALSE})

DeleteWide == DeleteCall({addressOf(str) : str \in WideKeyStrs}, {FALSE})

NextWide == ImportWide \/ DeleteWide \/ Filter

SpecWide == Init /\ [][NextWide]_vars

(***************************************************************************)
(* The parse of the key string: imports into the empty registry, each      *)
(* undone by accountDelete.                                                *)
(***************************************************************************)
ImportParsed ==
  /\ accounts = <<>>
  /\ ImportCall(ParseStrs, Passwords, TorusTypes, {FALSE})

DeleteParsed ==
  /\ accounts # <<>>
  /\ DeleteCall({accounts[1].address}, {FALSE})

NextParse == ImportParsed \/ DeleteParsed

SpecParse == Init /\ [][NextParse]_vars

(***************************************************************************)
(* isTorusAccount on the labels an account may carry.                      *)
(***************************************************************************)
LabelPieces == {<<"u">>, <<At>>, Google, Discord, <<"x">>}

RECURSIVE LabelsOf(_)
LabelsOf(n) ==
  IF n = 0 THEN {<<>>}
  ELSE LabelsOf(n - 1)
         \cup {l \o piece : l \in LabelsOf(n - 1), piece \in LabelPieces}

Labels == LabelsOf(MaxPieces)

InitLabel ==
  /\ \E label \in Labels : accounts = <<LoadedAccount(1, label)>>
  /\ defaultAccountAddress = LoadedAccount(1, <<>>).address
  /\ last = NoCall

IsTorusAccount == Lookup("isTorusAccount", Value(isTorusAccount(accounts[1])))

SpecLabel == InitLabel /\ [][IsTorusAccount]_vars

\* C11: getAccount returns the account at defaultAccountAddress when that
\* address is set and belongs to an account, the first account when the
\* address is null or empty, and fails with the default-account-missing
\* error, returning no account, when the address is set and belongs to none.
C11_GetAccount ==
  last.op = "getAccount" =>
    IF before.defaultAccountAddress \in {Null, ""}
    THEN Len(before.accounts) > 0 => last.ret = Value(before.accounts[1])
    ELSE IF Holders(before.accounts, before.defaultAccountAddress) = {}
    THEN /\ last.ret.kind = "throw"
         /\ last.ret.error = "Default account not found in wallet"
         /\ last.ret.value = Undefined
    ELSE /\ last.ret.kind = "ok"
         /\ last.ret.value.address = before.defaultAccountAddress
         /\ \E i \in 1..Len(before.accounts) :
              before.accounts[i] = last.ret.value

\* getAccount was called on two accounts with the address of a third as
\* the default
C11_Witness ==
  /\ last.op = "getAccount"
  /\ Len(before.accounts) = 2
  /\ before.defaultAccountAddress \notin {Null, ""}
  /\ ~ Has(before.accounts, before.defaultAccountAddress)

\* C12: isTorusAccount is true exactly for the labels with one '@' whose
\* part after the '@' is google or discord.
C12_IsTorusAccount ==
  last.op = "isTorusAccount" =>
    LET label == before.accounts[1].label
        ats == {i \in 1..Len(label) : label[i] = At}
    IN  last.ret.value
          <=> /\ Cardinality(ats) = 1
              /\ \E i \in ats :
                   SubSeq(label, i + 1, Len(label)) \in {Google, Discord}

\* isTorusAccount was called on a label with two '@' that ends in @google
C12_Witness ==
  /\ last.op = "isTorusAccount"
  /\ before.accounts[1].label = <<"u", At, At>> \o Google
  /\ last.ret.value = FALSE

\* C13: an account that is in the registry before and after a call of
\* accountImportPrivateKey, accountDelete or filterTorusAccount is the same
\* after it: same address, label, salt and encrypted key.
C13_AccountsUntouched ==
  last.op \in {"accountImportPrivateKey", "accountDelete",
               "filterTorusAccount"}
    => \A i \in 1..Len(before.accounts), j \in 1..Len(accounts) :
         accounts[j].address = before.accounts[i].address
           => /\ accounts[j].label = before.accounts[i].label
              /\ accounts[j].salt = before.accounts[i].salt
              /\ accounts[j].encryptedKey = before.accounts[i].encryptedKey

\* the key of an account without torus label was imported again as a google
\* key, next to another account
C13_Witness ==
  /\ Reimported
  /\ last.torusType = Google
  /\ Len(accounts) >= 2
  /\ \E i \in 1..Len(before.accounts) :
       /\ before.accounts[i].address = last.address
       /\ ~ isTorusAccount(before.accounts[i])

\* what the last call returns when it is given the Wallet object
RetLoaded ==
  CASE last.op = "accountImportPrivateKey" ->
         accountImportPrivateKey(last.privateKeyStr, last.password, before,
                                 last.torusType, last.id, last.salt).ret
    [] last.op = "accountDelete" -> accountDelete(last.address, before).ret
    [] last.op = "filterTorusAccount" -> filterTorusAccount(before).ret
    [] last.op = "getAccount" -> getAccount(before)
    [] last.op = "getAddress" -> getAddress(before)
    [] last.op = "isCurrentTorusAccount" -> isCurrentTorusAccount(before)

Scalar(bytes) == CHOOSE k \in 0..255 : bytes = SecretBytes(k)

AlgorithmOfTag == (ECDSAHex :> "ECDSA") @@ (SM2Hex :> "SM2")

CurveOfTag == (SECP256R1Hex :> "SECP256R1") @@ (SM2P256V1Hex :> "SM2P256V1")

\* the import added the account of key k and nothing else
AddedKey(k) ==
  /\ last.ret.kind = "ok"
  /\ Len(accounts) = Len(before.accounts) + 1
  /\ accounts[Len(accounts)].encryptedKey.key = k
  /\ accounts[Len(accounts)].publicKey = getPublicKeyOf(k)

\* the import failed and added nothing
AddedNothing ==
  /\ last.ret.kind = "throw"
  /\ accounts = before.accounts
  /\ defaultAccountAddress = before.defaultAccountAddress

\* C16: a key string of 52 characters is decoded as WIF; any other is
\* decoded as hex: 32 bytes are an ECDSA / secp256r1 key, otherwise the
\* first byte is the algorithm tag, the second the curve tag and the next
\* 32 bytes the key, and an unknown tag byte fails the import, which adds
\* no account.
C16_ParseDispatch ==
  (last.op = "accountImportPrivateKey" /\ before.accounts = <<>>) =>
    LET str == last.privateKeyStr
        b == str.bytes
    IN  IF str.length = 52
        THEN IF str.wif = NoKey THEN AddedNothing ELSE AddedKey(str.wif)
        ELSE IF Len(b) = 32
        THEN AddedKey([key |-> Scalar(b), algorithm |-> "ECDSA",
                       curve |-> "SECP256R1"])
        ELSE IF b[1] \notin DOMAIN AlgorithmOfTag
                  \/ b[2] \notin DOMAIN CurveOfTag
        THEN AddedNothing
        ELSE AddedKey([key |-> Scalar(SubSeq(b, 3, 34)),
                       algorithm |-> AlgorithmOfTag[b[1]],
                       curve |-> CurveOfTag[b[2]]])

\* a tagged SM2 key followed by one more byte was imported
C16_Witness ==
  /\ Imported
  /\ last.privateKeyStr =
       HexString(<<SM2Hex, SM2P256V1Hex>> \o SecretBytes(2) \o <<7>>)
  /\ accounts[1].encryptedKey.key = PrivateKey(2, "SM2", "SM2P256V1")

\* the key a key string of WideKeyStrs denotes
KeyOf(str) ==
  IF str.length = 52 THEN str.wif
  ELSE [key |-> Scalar(str.bytes), algorithm |-> "ECDSA",
        curve |-> "SECP256R1"]

\* the password the account at address was encrypted with
PasswordAt(accs, address) ==
  accs[CHOOSE i \in 1..Len(accs) : accs[i].address = address]
    .encryptedKey.password

\* C17 as stated: after accountImportPrivateKey(k, p, wallet) returns,
\* decryptAccount(wallet, p) succeeds and returns k.
C17_RoundTrip ==
  Imported =>
    decryptAccount(wallet, last.password) = Value(KeyOf(last.privateKeyStr))

\* C17 as amended: decryptAccount(wallet, p) returns k when the address of
\* k was not in the registry or its account was encrypted with p; after an
\* import of a known address with another password it fails, and the
\* password of the first import still decrypts k.
C17_RoundTripFirstPassword ==
  Imported =>
    IF Has(before.accounts, last.address)
         /\ PasswordAt(before.accounts, last.address) # last.password
    THEN /\ decryptAccount(wallet, last.password).kind = "throw"
         /\ decryptAccount(wallet, PasswordAt(before.accounts, last.address))
              = Value(KeyOf(last.privateKeyStr))
    ELSE decryptAccount(wallet, last.password)
           = Value(KeyOf(last.privateKeyStr))

\* a key was imported next to an account that has the other password
C17_Witness ==
  /\ Imported
  /\ Len(before.accounts) = 1
  /\ Len(accounts) = 2
  /\ before.accounts[1].encryptedKey.password # last.password
  /\ decryptAccount(wallet, last.password).kind = "ok"

\* the account of accs at address
AccountAt(accs, address) ==
  accs[CHOOSE i \in 1..Len(accs) : accs[i].address = address]

\* the import was made with torusType 'google' or 'discord'
Federated == last.torusType = Google \/ last.torusType = Discord

\* C18 as stated: after accountImportPrivateKey returns, isCurrentTorusAccount
\* is true exactly when the import was made with torusType 'google' or
\* 'discord', whatever happened before.
C18_FederatedIffTorusType ==
  Imported => isCurrentTorusAccount(wallet) = Value(Federated)

\* C18 as amended: after an import of an address the registry did not hold,
\* isCurrentTorusAccount is true exactly when torusType was 'google' or
\* 'discord'; after an import of an address it held, isCurrentTorusAccount
\* is what the label of the account already there says.
C18_FederatedIffFirstTorusType ==
  Imported =>
    IF Has(before.accounts, last.address)
    THEN isCurrentTorusAccount(wallet)
           = Value(isTorusAccount(AccountAt(before.accounts, last.address)))
    ELSE isCurrentTorusAccount(wallet) = Value(Federated)

\* a federated account was imported next to an account that is not federated
C18_Witness ==
  /\ Imported
  /\ Federated
  /\ Len(before.accounts) = 1
  /\ Len(accounts) = 2
  /\ ~ isTorusAccount(accounts[1])
  /\ isCurrentTorusAccount(wallet) = Value(TRUE)

\* C19: in every reachable state with at least one account, getAccount does
\* not fail and returns an account, and getPublicKey returns the public key
\* of that account.
C19_LookupsAgree ==
  accounts # <<>> =>
    /\ getAccount(wallet).kind = "ok"
    /\ getAccount(wallet).value # Undefined
    /\ getPublicKey(toJson(wallet))
         = Value(getAccount(wallet).value.publicKey)

\* the default account is not the first of several accounts
C19_Witness ==
  /\ Len(accounts) >= 2
  /\ defaultAccountAddress # accounts[1].address
  /\ getAccount(wallet) = Value(AccountAt(accounts, defaultAccountAddress))
  /\ getPublicKey(toJson(wallet)).value # accounts[1].publicKey

====
